---- MODULE Spec2Model ----
(***************************************************************************)
(* Model of dtcinitium.py: the DTCInitium device controller, its           *)
(* acquisition session (DTCAcquire), the background receive thread         *)
(* (DTCThread) and the scanner/port helpers config() depends on.           *)
(*                                                                         *)
(* The device is the environment.  Every receive on the connection has an  *)
(* outcome the device decides; a controller call is one atomic step that   *)
(* takes, as inputs, its arguments and the outcomes of the receives it     *)
(* performs.  The background receive loop runs one row per step and        *)
(* interleaves with the controller.                                        *)
(*                                                                         *)
(* Times are in milliseconds (settimeout(1) is 1000).                      *)
(*                                                                         *)
(* config() is declared with the parameter fast twice (line 921), which    *)
(* Python rejects when it compiles the file; the model takes config() as   *)
(* its body reads, with one fast parameter.                                *)
(***************************************************************************)
EXTENDS Integers, Sequences, FiniteSets, TLC

\* ------------------------------------------------------------------ bounds
\* rows the device delivers to one receive loop before it goes silent
MaxRows == 2
\* DTCAcquire objects alive (referenced or running) at one time
MaxSessions == 2

\* --------------------------------------------------------- program constants
npress == 30000
HeaderBytes == 24
SteadyTimeout == 1000
FloorTimeout == 300
MinStbl == 1
MaxStbl == 5
ClampMs == 4

Max2(a, b) == IF a >= b THEN a ELSE b
Min2(a, b) == IF a <= b THEN a ELSE b

\* ------------------------------------------------------------ scanner model
\* Scanners(scanners): the groups ([ids], npp, lrn) the controller is built with
ScannerGroups ==
  << [ids |-> <<1, 2, 3>>, npp |-> 2, lrn |-> 1],
     [ids |-> <<5>>,       npp |-> 3, lrn |-> 1] >>

SeqToSet(s) == { s[i] : i \in 1..Len(s) }

\* self.nports: scanner id -> ports per scanner (a later group overwrites)
nports ==
  [ s \in UNION { SeqToSet(ScannerGroups[g].ids) : g \in 1..Len(ScannerGroups) } |->
      LET gs == { g \in 1..Len(ScannerGroups) : s \in SeqToSet(ScannerGroups[g].ids) }
          last == CHOOSE g \in gs : \A h \in gs : h <= g
      IN  ScannerGroups[last].npp ]

Ok(v)   == [ok |-> TRUE,  v |-> v,    exc |-> ""]
Exc(e)  == [ok |-> FALSE, v |-> <<>>, exc |-> e]

\* scanner_port(s): a port name is three characters, scanner digit + two-digit port
scanner_port(p) ==
  IF p < 100 \/ p > 999 THEN Exc("ValueError") ELSE Ok(<<p \div 100, p % 100>>)

\* [lo, lo+1, ..., hi] as a sequence of port codes base*100 + k
PortRun_open(base, lo, hi) ==
  IF hi <= lo THEN <<>> ELSE [ k \in 1..(hi - lo) |-> base * 100 + lo + k - 1 ]
PortRun(base, lo, hi) ==
  IF hi < lo THEN <<>> ELSE [ k \in 1..(hi - lo + 1) |-> base * 100 + lo + k - 1 ]

RECURSIVE MiddlePorts(_, _)
MiddlePorts(i, s2) ==
  IF i >= s2 THEN <<>> ELSE PortRun(i, 1, nports[i]) \o MiddlePorts(i + 1, s2)

\* Scanners.list_ports_aux(p): p is <<code>> ("XYZ") or <<code1, code2>> ("XYZ-XYZ")
list_ports_aux(p) ==
  IF Len(p) = 1 THEN
    LET sp == scanner_port(p[1]) IN
    IF ~sp.ok THEN sp
    ELSE IF sp.v[1] \notin DOMAIN nports THEN Exc("KeyError")
    ELSE IF sp.v[2] < 0 \/ sp.v[2] > nports[sp.v[1]] THEN Exc("ValueError")
    ELSE Ok(<<p[1]>>)
  ELSE
    LET a == scanner_port(p[1])
        b == scanner_port(p[2])
    IN
    IF ~a.ok THEN a
    ELSE IF a.v[1] \notin DOMAIN nports THEN Exc("KeyError")
    ELSE IF ~b.ok THEN b
    ELSE IF b.v[1] \notin DOMAIN nports THEN Exc("KeyError")
    ELSE
      LET s1 == a.v[1]  p1 == a.v[2]  s2 == b.v[1]  p2 == b.v[2] IN
      IF \E i \in s1..s2 : i \notin DOMAIN nports THEN Exc("ValueError")
      ELSE IF p1 < 1 THEN Exc("ValueError")
      ELSE IF p2 > nports[s2] THEN Exc("ValueError")
      ELSE IF s1 = s2 THEN Ok(PortRun(s1, p1, p2))
      ELSE Ok(PortRun(s1, p1, nports[s1]) \o MiddlePorts(s1 + 1, s2)
              \o (IF s2 > s1 THEN PortRun(s2, 1, p2) ELSE <<>>))

\* for i in p1: if i in ports: of list_ports
Repeated_first(p1, ports) == p1 # <<>> /\ p1[1] \in SeqToSet(ports)
Repeated(p1, ports) == \E i \in 1..Len(p1) : p1[i] \in SeqToSet(ports)

\* Scanners.list_ports(*plst)
RECURSIVE list_ports_from(_, _)
list_ports_from(plst, ports) ==
  IF plst = <<>> THEN Ok(ports)
  ELSE LET p1 == list_ports_aux(Head(plst)) IN
       IF ~p1.ok THEN p1
       ELSE IF Repeated(p1.v, ports) THEN Exc("ValueError")
       ELSE list_ports_from(Tail(plst), ports \o p1.v)

list_ports(plst) == list_ports_from(plst, <<>>)

\* Scanners.ports_default(): one "s01-sNN" range per scanner of every group
RECURSIVE ports_default_from(_)
ports_default_from(groups) ==
  IF groups = <<>> THEN <<>>
  ELSE LET g == Head(groups) IN
       [ k \in 1..Len(g.ids) |-> <<g.ids[k] * 100 + 1, g.ids[k] * 100 + g.npp>> ]
         \o ports_default_from(Tail(groups))

ports_default_first == ports_default_from(<<Head(ScannerGroups)>>)
ports_default == ports_default_from(ScannerGroups)

\* sum of self.nports[i] for i in range(i, s2+1); ValueError at a scanner that
\* is not configured
RECURSIVE CountScanners(_, _)
CountScanners(i, s2) ==
  IF i > s2 THEN Ok(0)
  ELSE IF i \notin DOMAIN nports THEN Exc("ValueError")
  ELSE LET r == CountScanners(i + 1, s2) IN
       IF ~r.ok THEN r ELSE Ok(nports[i] + r.v)

\* Scanners.count_ports_aux(p).  For a single port the code passes the list
\* lims, not the name, to scanner_port: str(lims) is "['XYZ']", seven characters
\* for a three-character name, never three for any name, so it raises.
count_ports_aux(p) ==
  IF Len(p) = 1 THEN Exc("ValueError")
  ELSE
    LET a == scanner_port(p[1])
        b == scanner_port(p[2])
    IN
    IF ~a.ok THEN a
    ELSE IF ~b.ok THEN b
    ELSE
      LET s1 == a.v[1]  p1 == a.v[2]  s2 == b.v[1]  p2 == b.v[2]
          nn == CountScanners(s1, s2)
      IN
      IF ~nn.ok THEN nn
      ELSE IF p1 = 0 THEN Exc("ValueError")
      ELSE IF s2 \notin DOMAIN nports THEN Exc("KeyError")
      ELSE IF p2 > nports[s2] THEN Exc("ValueError")
      ELSE Ok(nn.v - (IF p1 > 1 THEN p1 - 1 ELSE 0)
                   - (IF p2 < nports[s2] THEN nports[s2] - p2 ELSE 0))

\* Scanners.count_ports(plst): sum([self.count_ports_aux(p) for p in plst])
RECURSIVE count_ports(_)
count_ports(plst) ==
  IF plst = <<>> THEN Ok(0)
  ELSE LET c == count_ports_aux(Head(plst)) IN
       IF ~c.ok THEN c
       ELSE LET r == count_ports(Tail(plst)) IN
            IF ~r.ok THEN r ELSE Ok(c.v + r.v)

\* ------------------------------------------------------------------- state
VARIABLES
  stbl,       \* self.stbl: table id -> DASetupTable (the setup-table registry)
  buffer,     \* self.buffer: identity of the controller's sample buffer
  buflen,     \* self.buflen: rows of self.buffer
  acquiring,  \* self.acquiring
  acq,        \* self.acq: index into sess, 0 for None
  thread,     \* self.thread: index of the session the thread runs, 0 for None
  timeout,    \* the socket's timeout (ms)
  sess,       \* the DTCAcquire objects: slot -> object, Gone for a free slot
  call,       \* the last step: who ran, what it sent and received, how it ended
  probe       \* a helper applied on its own: its input and, once applied, its result

vars == <<stbl, buffer, buflen, acquiring, acq, thread, timeout, sess, call, probe>>

None == -1

\* outcomes of one response() on the connection, decided by the device
RespOutcomes == {"ack", "err", "val", "unk", "timeout"}
\* the outcomes the controller's calls are driven with ("unk" raises as "err" does)
CtlOutcomes == {"ack", "err", "val", "timeout"}
\* outcomes of the response to SD5 the calls are driven with: a packet that is
\* neither Ack nor Error is returned by response() and ignored as the Ack is
SwitchOutcomes == {"ack", "err", "timeout"}
\* outcomes of one recv_into() of a row that does not time out
RowOutcomes == {"full", "short"}
\* outcomes of one recv_into() of the background loop, which does not look at
\* the count recv_into returns: a short read, as of a row cut short or of an
\* Error packet, counts as a row
ThreadOutcomes == {"full", "short", "timeout"}
\* outcomes of one recv_into() of acquire0(), which keeps no count of its rows:
\* a short read changes nothing in it that a full one does not
LegacyRows == {"full", "timeout"}
\* outcomes of one response(err=True) of simpleacquire() after AD2: the packet
\* is kept whatever its type, so "val" stands for the Ack also
LegacyPackets == {"val", "err", "timeout"}
\* the device answers AD2 with an Error packet: its 8 bytes arrive where row 0
\* is expected, and recv_into takes them as a short read of that row
ErrRow == "err"

RECURSIVE SeqsUpTo(_, _)
SeqsUpTo(S, n) ==
  IF n = 0 THEN { <<>> }
  ELSE LET shorter == SeqsUpTo(S, n - 1) IN
       shorter \cup { Append(q, x) : q \in { r \in shorter : Len(r) = n - 1 }, x \in S }

\* what the device delivers to one synchronous receive loop before it goes
\* silent: full rows, or a row 0 that comes short, or the Error packet, alone or
\* with packets after it that are taken as short reads of all the rows left;
\* the loop times out when they are used up
RowScripts ==
  { r \in SeqsUpTo(RowOutcomes, MaxRows) : \A i \in 1..Len(r) : r[i] = "short" => Len(r) = 1 }
  \cup { <<ErrRow>>, <<ErrRow>> \o [i \in 1..(MaxRows - 1) |-> "short"] }

\* ------------------------------------------------------------ packet decoder
\* DTCInitiumCore.response(err): the packet type returned, or the exception
response(o, err) ==
  IF o = "ack" THEN [ok |-> TRUE, type |-> 4, exc |-> ""]
  ELSE IF o = "val" THEN [ok |-> TRUE, type |-> 8, exc |-> ""]
  ELSE IF o = "err" THEN
    IF err THEN [ok |-> FALSE, type |-> 128, exc |-> "RuntimeError"]
    ELSE [ok |-> TRUE, type |-> 128, exc |-> ""]
  ELSE IF o = "unk" THEN [ok |-> FALSE, type |-> 0, exc |-> "RuntimeError"]
  ELSE [ok |-> FALSE, type |-> 0, exc |-> "timeout"]

\* ------------------------------------------------------- acquisition session
\* DTCAcquire.__init__(s, stbl, nms, buf, nchans).  bufrows is the row count of
\* the array buf refers to; nfull counts the rows whose nbytes bytes all arrived;
\* pc is the position in acquire(): "init", "recv", "done" or "died";
\* ackat is nsamples when the completion packet was read (None: not read)
DTCAcquire(st, nms, buf, bufrows, nchans, threaded) ==
  [stbl |-> st, nms |-> nms, buf |-> buf, bufrows |-> bufrows, nchans |-> nchans,
   nbytes |-> nchans * 4 + HeaderBytes, nsamples |-> 0, acquiring |-> FALSE,
   nfull |-> 0, pc |-> "init", exc |-> "", threaded |-> threaded, ackat |-> None]

\* a free slot of sess
Gone == [DTCAcquire(0, 0, 0, 0, 0, FALSE) EXCEPT !.pc = "gone"]

\* an object nothing refers to any more is collected: it is kept while self.acq
\* or self.thread, whose attribute acq is the session the thread was made for,
\* (the ids in keep) refers to it or its thread still runs
Collect(ss, keep) ==
  [i \in DOMAIN ss |->
     IF i \in keep \/ (ss[i].threaded /\ ss[i].pc \in {"init", "recv"}) THEN ss[i]
     ELSE Gone]

HasFree(ss) == \E i \in DOMAIN ss : ss[i] = Gone
FreeSlot(ss) == CHOOSE i \in DOMAIN ss : ss[i] = Gone /\ \A j \in DOMAIN ss : ss[j] = Gone => i <= j

\* DTCAcquire.acquire(), up to and including the send of AD2
AcqBegin(s) == [s EXCEPT !.nsamples = 0, !.acquiring = TRUE, !.pc = "recv"]

\* the loop of DTCAcquire.acquire() has received every row it asks for:
\* row 0 unconditionally, then rows 1 .. nms-1
LoopDone(s) == s.nsamples >= 1 /\ s.nsamples >= s.nms

\* one recv_into(self.buf[i], self.nbytes) of DTCAcquire.acquire(), i = nsamples
RecvRow(s, o) ==
  IF s.nsamples >= s.bufrows THEN [s EXCEPT !.pc = "died", !.exc = "IndexError"]
  ELSE IF o = "timeout" THEN [s EXCEPT !.pc = "died", !.exc = "timeout"]
  ELSE LET r == [s EXCEPT !.nsamples = s.nsamples + 1,
                          !.nfull = IF o = "full" THEN s.nfull + 1 ELSE s.nfull]
       IN  IF LoopDone(r) THEN [r EXCEPT !.acquiring = FALSE, !.pc = "done"] ELSE r

\* DTCAcquire.acquire() run to its end on the calling thread
RECURSIVE RecvLoop(_, _)
RecvLoop(s, rows) ==
  IF s.pc # "recv" THEN s
  ELSE IF rows = <<>> THEN RecvLoop(RecvRow(s, "timeout"), rows)
  ELSE RecvLoop(RecvRow(s, Head(rows)), Tail(rows))

\* --------------------------------------------------------------- controller
DASetupTable(st, nfr, nms, msd, trm, port, nchans, fast) ==
  [stbl |-> st, nfr |-> nfr, nms |-> nms, msd |-> msd, trm |-> trm, scm |-> 1,
   ocf |-> 2, port |-> port, nchans |-> nchans, fast |-> fast]

\* the receive timeout acquire() and start() set: max(0.3, 2*dt*1e-3) s
AcqTimeout_nofloor(t) == 2 * Max2(t.nfr * 4, t.msd)
AcqTimeout(t) == Max2(FloorTimeout, 2 * Max2(t.nfr * 4, t.msd))

\* the receive timeout acquire0() sets: max(3*dt, 1) s with dt = max(msd, nfr*3.3)
Acq0Timeout(t) == Max2(Max2(3000 * t.msd, 9900 * t.nfr), 1000)

ThreadAlive == \E i \in DOMAIN sess : sess[i].threaded /\ sess[i].pc \in {"init", "recv"}

\* s is the session the call worked on, as the call left it (Gone for none)
Call(op, res, sent, nrecv, s, val) ==
  [op |-> op, res |-> res, sent |-> sent, nrecv |-> nrecv, s |-> s, val |-> val,
   alive |-> ThreadAlive, busy |-> acquiring, resp |-> <<>>, rows |-> <<>>,
   tmo |-> None, arg |-> <<>>, at |-> ""]

\* the call c, which made the response() calls with the outcomes rs, in order
Resp(rs, c) == [c EXCEPT !.resp = rs]

\* the call c, whose receive loop got the rows of the script rows
Rows(rows, c) == [c EXCEPT !.rows = rows]

\* the call c, which was made with the arguments a
Args(a, c) == [c EXCEPT !.arg = a]

\* the call c, which applied the receive timeout t before it began its session
Timed(t, c) == [c EXCEPT !.tmo = t]

\* bytes are consumed by a receive unless it times out
Consumed(o) == IF o = "timeout" THEN 0 ELSE 1

\* the call c, which is under way and waits in the receive named at: "sd5off",
\* "row", "pkt", "ack" or "sd5on" ("" once the call has ended)
At(at, c) == [c EXCEPT !.at = at]

\* the result of a call that has not ended
Run == "run"

\* the call under way ends with the result res and the value val
End(res, val, c) == [c EXCEPT !.res = res, !.val = val, !.at = ""]

\* the call under way has read one more response, with the outcome o
Got(o, c) == [c EXCEPT !.resp = Append(@, o), !.nrecv = @ + Consumed(o)]

\* no call to report: the caller has taken the last result
NoCall == [op |-> "none", res |-> "ok", sent |-> <<>>, nrecv |-> 0, s |-> Gone,
           val |-> None, alive |-> FALSE, busy |-> FALSE, resp |-> <<>>,
           rows |-> <<>>, tmo |-> None, arg |-> <<>>, at |-> ""]

\* no helper is examined on its own
NoProbe == [fn |-> "none"]

\* the controller after DTCInitium.__init__
Controller0 ==
  /\ stbl = (5 :> DASetupTable(5, 1, 1, 50, 0, ports_default,
                                Len(list_ports(ports_default).v), FALSE))
  /\ buffer = 0
  /\ buflen = npress
  /\ acquiring = FALSE
  /\ acq = 0
  /\ thread = 0
  /\ timeout = SteadyTimeout
  /\ sess = [i \in 1..MaxSessions |-> Gone]
  /\ call = NoCall

Init == Controller0 /\ probe = NoProbe

\* commands on the wire
SD5off == "SD5 -1 0"
SD5on_off == "SD5 -1 0"
SD5on  == "SD5 -1 1"

\* the test that guards acquire(), start() and config(): if self.acquiring
Busy_session == acq # 0 /\ sess[acq].acquiring
Busy == acquiring

\* a call that raises before it touches anything
Raise(op, exc) ==
  /\ call' = Call(op, exc, <<>>, 0, Gone, None)
  /\ UNCHANGED <<stbl, buffer, buflen, acquiring, acq, thread, timeout, sess>>

\* the objects after a step that leaves them as ss, self.acq = a, self.thread = th
Heap(ss, a, th) ==
  /\ acq' = a
  /\ thread' = th
  /\ sess' = Collect(ss, {a, th})

\* DTCInitium.get_pressure(nms, nchans): reads rows 0 .. nms-1 of self.buffer
get_pressure(nms, nchans) ==
  IF nms > buflen THEN [ok |-> FALSE, exc |-> "IndexError", rows |-> None]
  ELSE [ok |-> TRUE, exc |-> "", rows |-> nms]

\* DTCInitium.acquire(stbl, nms): r0, r1, r2 are the outcomes of the responses to
\* SD5(-1,0), to the acquisition and to SD5(-1,1); rows is what the loop receives
acquire(st, nmsarg, r0, rows, r1, r2) ==
  IF Busy THEN Raise("acquire", "RuntimeError_busy")
  ELSE IF st \notin DOMAIN stbl THEN Raise("acquire", "ValueError")
  ELSE
    LET t     == stbl[st]
        nms   == IF nmsarg = None THEN t.nms ELSE nmsarg
        f0    == response(r0, TRUE)
        sent0 == IF t.fast THEN <<SD5off>> ELSE <<>>
        n0    == IF t.fast THEN Consumed(r0) ELSE 0
        rs0   == IF t.fast THEN <<r0>> ELSE <<>>
    IN
    IF t.fast /\ ~f0.ok THEN
      /\ call' = Resp(rs0, Call("acquire", f0.exc, sent0, n0, Gone, None))
      /\ UNCHANGED <<stbl, buffer, buflen, acquiring, acq, thread, timeout, sess>>
    ELSE
      LET old   == Collect(sess, {thread})
          sid   == FreeSlot(old)
          s1    == RecvLoop(AcqBegin(DTCAcquire(st, nms, buffer, buflen, t.nchans, FALSE)), rows)
          sentA == Append(sent0, "AD2")
          nA    == n0 + s1.nsamples
          c     == response(r1, TRUE)
          s2    == [s1 EXCEPT !.ackat = s1.nsamples]
          f1    == response(r2, TRUE)
          press == get_pressure(nms, t.nchans)
          Looped(op, res, sent, nrecv, s, val) ==
            Timed(AcqTimeout(t), Rows(rows, Call(op, res, sent, nrecv, s, val)))
      IN
      /\ HasFree(old)
      /\ UNCHANGED <<stbl, buffer, buflen, acquiring>>
      /\ IF s1.pc = "died" THEN
           /\ timeout' = AcqTimeout(t)
           /\ Heap([old EXCEPT ![sid] = s1], sid, thread)
           /\ call' = Resp(rs0, Looped("acquire", s1.exc, sentA, nA, s1, None))
         ELSE IF ~c.ok \/ c.type # 4 THEN
           /\ timeout' = AcqTimeout(t)
           /\ Heap([old EXCEPT ![sid] = s2], sid, thread)
           /\ call' = Resp(Append(rs0, r1),
                           Looped("acquire", IF c.ok THEN "RuntimeError" ELSE c.exc,
                                sentA, nA + Consumed(r1), s2, None))
         ELSE IF t.fast /\ ~f1.ok THEN
           /\ timeout' = AcqTimeout(t)
           /\ Heap([old EXCEPT ![sid] = s2], sid, thread)
           /\ call' = Resp(rs0 \o <<r1, r2>>,
                           Looped("acquire", f1.exc, Append(sentA, SD5on),
                                nA + 1 + Consumed(r2), s2, None))
         ELSE
           /\ timeout' = SteadyTimeout
           /\ Heap(old, 0, thread)
           /\ call' = Resp(rs0 \o <<r1>> \o (IF t.fast THEN <<r2>> ELSE <<>>),
                           Looped("acquire", IF press.ok THEN "ok" ELSE press.exc,
                                IF t.fast THEN Append(sentA, SD5on) ELSE sentA,
                                nA + 1 + (IF t.fast THEN 1 ELSE 0), s2, press.rows))

\* DTCInitium.start(stbl, nms)
start(st, nmsarg, r0) ==
  IF Busy THEN Raise("start", "RuntimeError_busy")
  ELSE IF st \notin DOMAIN stbl THEN Raise("start", "ValueError")
  ELSE
    LET t     == stbl[st]
        nms   == IF nmsarg = None THEN t.nms ELSE nmsarg
        f0    == response(r0, TRUE)
        sent0 == IF t.fast THEN <<SD5off>> ELSE <<>>
        n0    == IF t.fast THEN Consumed(r0) ELSE 0
        old   == Collect(sess, {})
        sid   == FreeSlot(old)
        s0    == DTCAcquire(st, nms, buffer, buflen, t.nchans, TRUE)
        rs0   == IF t.fast THEN <<r0>> ELSE <<>>
    IN
    IF t.fast /\ ~f0.ok THEN
      /\ call' = Resp(rs0, Call("start", f0.exc, sent0, n0, Gone, None))
      /\ UNCHANGED <<stbl, buffer, buflen, acquiring, acq, thread, timeout, sess>>
    ELSE
      /\ HasFree(old)
      /\ timeout' = AcqTimeout(t)
      /\ Heap([old EXCEPT ![sid] = s0], sid, sid)
      /\ acquiring' = TRUE
      /\ call' = Timed(AcqTimeout(t), Resp(rs0, Call("start", "ok", sent0, n0, s0, None)))
      /\ UNCHANGED <<stbl, buffer, buflen>>

\* DTCThread.run, first part: DTCAcquire.acquire() up to the send of AD2
ThreadBegin(i) ==
  /\ sess[i].threaded
  /\ sess[i].pc = "init"
  /\ sess' = [sess EXCEPT ![i] = AcqBegin(@)]
  /\ UNCHANGED <<stbl, buffer, buflen, acquiring, acq, thread, timeout, call>>

\* DTCThread.run, the receive loop: one recv_into per step; an exception ends
\* the thread and goes nowhere else
ThreadRecv(i, o) ==
  LET s == RecvRow(sess[i], o) IN
  /\ sess[i].threaded
  /\ sess[i].pc = "recv"
  /\ o \in RowOutcomes => sess[i].nsamples < MaxRows
  /\ Heap([sess EXCEPT ![i] = s], acq, thread)
  /\ UNCHANGED <<stbl, buffer, buflen, acquiring, timeout, call>>

\* threading.Thread.join() returns: the thread self.thread refers to has ended
Joined == thread \in DOMAIN sess /\ sess[thread].pc \in {"done", "died"}

\* DTCInitium.read(): r1, r2 are the outcomes of the completion response and of
\* the response to SD5(-1,1)
read(r1, r2) ==
  IF thread = 0 THEN Raise("read", "AttributeError")
  ELSE
    LET c  == response(r1, TRUE)
        ss == IF acq = 0 THEN sess ELSE [sess EXCEPT ![acq].ackat = sess[acq].nsamples]
        s  == IF acq = 0 THEN Gone ELSE ss[acq]
    IN
    /\ Joined
    /\ UNCHANGED <<stbl, buffer, buflen>>
    /\ IF ~c.ok \/ c.type # 4 THEN
         /\ Heap(ss, acq, thread)
         /\ call' = Resp(<<r1>>, Call("read", IF c.ok THEN "RuntimeError" ELSE c.exc,
                                       <<>>, Consumed(r1), s, None))
         /\ UNCHANGED <<acquiring, timeout>>
       ELSE IF acq = 0 THEN
         /\ call' = Resp(<<r1>>, Call("read", "AttributeError", <<>>, 1, Gone, None))
         /\ UNCHANGED <<acquiring, acq, thread, timeout, sess>>
       ELSE
         LET t     == stbl[s.stbl]
             f1    == response(r2, TRUE)
             press == get_pressure(s.nms, s.nchans)
         IN
         IF t.fast /\ ~f1.ok THEN
           /\ Heap(ss, acq, thread)
           /\ call' = Resp(<<r1, r2>>,
                           Call("read", f1.exc, <<SD5on>>, 1 + Consumed(r2), s, None))
           /\ UNCHANGED <<acquiring, timeout>>
         ELSE
           /\ Heap(ss, 0, thread)
           /\ acquiring' = FALSE
           /\ timeout' = SteadyTimeout
           /\ call' = Resp(IF t.fast THEN <<r1, r2>> ELSE <<r1>>,
                           Call("read", IF press.ok THEN "ok" ELSE press.exc,
                                IF t.fast THEN <<SD5on>> ELSE <<>>,
                                1 + (IF t.fast THEN 1 ELSE 0), s, press.rows))

\* DTCInitium.config(stbl, nfr, nms, msd, fast, trm, port): prof holds nfr, nms,
\* msd, trm and fast; port is NoPort for None, else the list of ranges; r1, r2
\* are the outcomes of the responses to SD2 and SD3
NoPort == [given |-> FALSE, lst |-> <<>>]
Port(lst) == [given |-> TRUE, lst |-> lst]

config(st, prof, port, r1, r2) ==
  IF Busy THEN Raise("config", "RuntimeError_busy")
  ELSE IF st < MinStbl \/ st > MaxStbl THEN Raise("config", "ValueError")
  ELSE
    LET plst == IF port.given THEN port.lst ELSE ports_default
        lp   == list_ports(plst)
        a    == response(r1, TRUE)
        b    == response(r2, TRUE)
        tbl  == DASetupTable(st, prof.nfr, prof.nms, prof.msd, prof.trm, plst,
                             Len(lp.v), prof.fast)
    IN
    IF ~lp.ok THEN Raise("config", lp.exc)
    ELSE
      /\ stbl' = [k \in DOMAIN stbl \cup {st} |-> IF k = st THEN tbl ELSE stbl[k]]
      /\ UNCHANGED <<buffer, buflen, acquiring, acq, thread, timeout, sess>>
      /\ IF ~a.ok THEN
           call' = Resp(<<r1>>, Call("config", a.exc, <<"SD2">>, Consumed(r1), Gone, None))
         ELSE IF ~b.ok THEN
           call' = Resp(<<r1, r2>>, Call("config", b.exc, <<"SD2", "SD3">>,
                                         1 + Consumed(r2), Gone, None))
         ELSE call' = Resp(<<r1, r2>>, Call("config", "ok", <<"SD2", "SD3">>, 2, Gone, None))

\* DTCInitium.allocbuffer(stbl, npress)
allocbuffer(st, np) ==
  IF st \notin DOMAIN stbl THEN
    /\ call' = Args(<<st, np>>, Call("allocbuffer", "ValueError", <<>>, 0, Gone, None))
    /\ UNCHANGED <<stbl, buffer, buflen, acquiring, acq, thread, timeout, sess>>
  ELSE
    LET nms  == stbl[st].nms
        np1  == IF np = None THEN buflen ELSE stbl[st].nms
        want == Max2(np1, nms)
    IN
    /\ IF want > buflen THEN buffer' = buffer + 1 /\ buflen' = want
       ELSE UNCHANGED <<buffer, buflen>>
    /\ call' = Args(<<st, np>>, Call("allocbuffer", "ok", <<>>, 0, Gone, None))
    /\ UNCHANGED <<stbl, acquiring, acq, thread, timeout, sess>>

\* DTCInitium.stop(): sends AD0, then self.response() is no attribute of DTCInitium
stop ==
  /\ call' = Call("stop", "AttributeError", <<"AD0">>, 0, Gone, None)
  /\ UNCHANGED <<stbl, buffer, buflen, acquiring, acq, thread, timeout, sess>>

\* DTCInitium.samplesread()
samplesread ==
  /\ IF acquiring THEN call' = Call("samplesread", "ok", <<>>, 0, sess[acq], sess[acq].nsamples)
     ELSE call' = Call("samplesread", "RuntimeError", <<>>, 0, Gone, None)
  /\ UNCHANGED <<stbl, buffer, buflen, acquiring, acq, thread, timeout, sess>>

\* t2 - t1 of a session with n rows counted, in ms: t1 = t2 = t0 before row 0,
\* t2 is still t0 < t1 after row 0, and t2 > t1 from row 1 on
ElapsedOf(n) == IF n = 0 THEN {0} ELSE IF n = 1 THEN {-50} ELSE {1, 50}

\* DTCAcquire.samplerate(): (nsamples-1) / max(4e-3, t2 - t1) for an elapsed time
\* el in ms, in rows per second: the quotient num / den, kept as the fraction
DTCAcquire_samplerate(n, el) == [num |-> (n - 1) * 1000, den |-> Max2(ClampMs, el)]

\* DTCInitium.samplerate()
samplerate(el) ==
  /\ IF acquiring
     THEN call' = Call("samplerate", "ok", <<>>, 0, sess[acq],
                       DTCAcquire_samplerate(sess[acq].nsamples, el))
     ELSE call' = Call("samplerate", "RuntimeError", <<>>, 0, Gone, None)
  /\ UNCHANGED <<stbl, buffer, buflen, acquiring, acq, thread, timeout, sess>>

\* DTCInitium.acquire0(stbl, nms) up to its first wait: the response to SD5(-1,0)
\* for a table in fast mode, else the receive of row 0 after settimeout and AD2
acquire0(st, nmsarg) ==
  IF st \notin DOMAIN stbl THEN Raise("acquire0", "ValueError")
  ELSE
    LET t   == stbl[st]
        nms == IF nmsarg = None THEN t.nms ELSE nmsarg
    IN
    /\ UNCHANGED <<stbl, buffer, buflen, acquiring, acq, thread, sess>>
    /\ IF t.fast THEN
         /\ call' = At("sd5off", Args(<<st, nms>>,
                        Call("acquire0", Run, <<SD5off>>, 0, Gone, None)))
         /\ UNCHANGED timeout
       ELSE
         /\ timeout' = Acq0Timeout(t)
         /\ call' = At("row", Args(<<st, nms>>,
                        Call("acquire0", Run, <<"AD2">>, 0, Gone, None)))

\* acquire0() under way: the receive it waits in ends with the outcome o, and
\* the call runs on to its next wait or to its end.  acquire0() keeps no count
\* of its rows, so a row that comes short changes nothing in it
acquire0_recv(o) ==
  LET st  == call.arg[1]
      nms == call.arg[2]
      t   == stbl[st]
      r   == response(o, TRUE)
      n   == Len(call.rows) + 1
  IN
  /\ call.op = "acquire0"
  /\ call.res = Run
  /\ UNCHANGED <<stbl, buffer, buflen, acquiring, acq, thread, sess>>
  /\ IF call.at = "sd5off" THEN
       /\ o \in SwitchOutcomes
       /\ IF ~r.ok THEN
            /\ call' = End(r.exc, None, Got(o, call))
            /\ UNCHANGED timeout
          ELSE
            /\ timeout' = Acq0Timeout(t)
            /\ call' = At("row", [Got(o, call) EXCEPT !.sent = Append(@, "AD2")])
     ELSE IF call.at = "row" THEN
       /\ o \in LegacyRows
       /\ o = "full" => Len(call.rows) < MaxRows
       /\ IF o = "timeout" THEN
            /\ call' = End("timeout", None, call)
            /\ UNCHANGED timeout
          ELSE IF n >= nms THEN
            /\ timeout' = SteadyTimeout
            /\ call' = At("ack", [call EXCEPT !.rows = Append(@, o), !.nrecv = @ + 1])
          ELSE IF n >= buflen THEN
            /\ call' = End("IndexError", None,
                           [call EXCEPT !.rows = Append(@, o), !.nrecv = @ + 1])
            /\ UNCHANGED timeout
          ELSE
            /\ call' = [call EXCEPT !.rows = Append(@, o), !.nrecv = @ + 1]
            /\ UNCHANGED timeout
     ELSE IF call.at = "ack" THEN
       /\ o \in CtlOutcomes
       /\ UNCHANGED timeout
       /\ IF ~r.ok \/ r.type # 4 THEN
            call' = End(IF r.ok THEN "RuntimeError" ELSE r.exc, None, Got(o, call))
          ELSE IF t.fast THEN
            call' = At("sd5on", [Got(o, call) EXCEPT !.sent = Append(@, SD5on)])
          ELSE call' = End("ok", nms, Got(o, call))
     ELSE
       /\ call.at = "sd5on"
       /\ o \in SwitchOutcomes
       /\ UNCHANGED timeout
       /\ call' = End(IF r.ok THEN "ok" ELSE r.exc, IF r.ok THEN nms ELSE None,
                      Got(o, call))

\* the responses simpleacquire() reads after AD2: one per row (row 0
\* unconditionally, then rows 1 .. nms-1) and one more
SimpleReads(nms) == Max2(nms, 1) + 1

\* DTCInitium.simpleacquire(stbl, nms) up to its first wait: the response to
\* SD5(-1,0) for a table in fast mode, else the first response after AD2
simpleacquire(st, nmsarg) ==
  IF st \notin DOMAIN stbl THEN Raise("simpleacquire", "ValueError")
  ELSE
    LET t   == stbl[st]
        nms == IF nmsarg = None THEN t.nms ELSE nmsarg
    IN
    /\ UNCHANGED <<stbl, buffer, buflen, acquiring, acq, thread, timeout, sess>>
    /\ IF t.fast THEN
         call' = At("sd5off", Args(<<st, nms>>,
                    Call("simpleacquire", Run, <<SD5off>>, 0, Gone, None)))
       ELSE
         call' = At("pkt", Args(<<st, nms>>,
                    Call("simpleacquire", Run, <<"AD2">>, 0, Gone, None)))

\* simpleacquire() under way: the response() it waits in ends with the outcome
\* o; call.rows holds the packets read after AD2
simpleacquire_recv(o) ==
  LET st  == call.arg[1]
      nms == call.arg[2]
      t   == stbl[st]
      r   == response(o, TRUE)
      k   == Len(call.rows) + 1
  IN
  /\ call.op = "simpleacquire"
  /\ call.res = Run
  /\ UNCHANGED <<stbl, buffer, buflen, acquiring, acq, thread, timeout, sess>>
  /\ IF call.at = "sd5off" THEN
       /\ o \in SwitchOutcomes
       /\ IF ~r.ok THEN call' = End(r.exc, None, Got(o, call))
          ELSE call' = At("pkt", [Got(o, call) EXCEPT !.sent = Append(@, "AD2")])
     ELSE IF call.at = "pkt" THEN
       /\ o \in LegacyPackets
       /\ o = "val" => Len(call.rows) < Min2(SimpleReads(nms), MaxRows + 1)
       /\ IF ~r.ok THEN call' = End(r.exc, None, Got(o, call))
          ELSE IF k < SimpleReads(nms) THEN
            call' = [Got(o, call) EXCEPT !.rows = Append(@, o)]
          ELSE IF t.fast THEN
            call' = At("sd5on", [Got(o, call) EXCEPT !.rows = Append(@, o),
                                                      !.sent = Append(@, SD5on)])
          ELSE call' = End("ok", nms, [Got(o, call) EXCEPT !.rows = Append(@, o)])
     ELSE
       /\ call.at = "sd5on"
       /\ o \in SwitchOutcomes
       /\ call' = End(IF r.ok THEN "ok" ELSE r.exc, IF r.ok THEN nms ELSE None,
                      Got(o, call))

\* ------------------------------------------------------------------- inputs
\* the table ids acquisitions and allocbuffer() are called with: the table of
\* the constructor and an id that is never configured
StblArgs == {5, 6}
\* the nms argument of acquire(): a row count within the row bound (start(),
\* acquire0() and simpleacquire() are called with the table's own nms)
NmsArgs == {MaxRows}
\* the nms argument of start(): left out, no row (row 0 is received all the
\* same) or one row
NmsStart == {None, 0, 1}
\* acquire0() and simpleacquire() are called without nms
NmsLegacy == {None}
\* config's calls: the table id, the table parameters and the port list; valid
\* says that config gets as far as the wire
ProfA == [nfr |-> 1, nms |-> 1, msd |-> 50, trm |-> 0, fast |-> FALSE]
ProfB == [nfr |-> 64, nms |-> npress + 1, msd |-> 600, trm |-> 0, fast |-> TRUE]
ConfigCalls ==
  { [stbl |-> 5, prof |-> ProfA, port |-> NoPort, valid |-> TRUE],
    [stbl |-> 5, prof |-> ProfB, port |-> Port(<< <<101, 102>> >>), valid |-> TRUE],
    [stbl |-> 6, prof |-> ProfA, port |-> NoPort, valid |-> FALSE],
    [stbl |-> 1, prof |-> ProfA, port |-> Port(<< <<101, 102>>, <<102>> >>), valid |-> FALSE],
    [stbl |-> 1, prof |-> ProfA, port |-> Port(<< <<401>> >>), valid |-> FALSE],
    [stbl |-> 1, prof |-> ProfA, port |-> Port(<< <<103>> >>), valid |-> FALSE] }

\* response() returns a packet
Passes(o) == o \in {"ack", "val"}

\* The inputs of an acquisition call on table t with nms = n, one choice for every
\* distinct run: an input the call does not get to use has the value "ack" or <<>>
Need(t, n) == Max2(IF n = None THEN t.nms ELSE n, 1)
R0Set(t) == IF t.fast THEN SwitchOutcomes ELSE {"ack"}
RowSet(t, n, r0) ==
  IF Passes(r0) THEN { r \in RowScripts : Len(r) <= Need(t, n) } ELSE { <<>> }
R1Set(t, n, r0, rows) ==
  IF Passes(r0) /\ Len(rows) = Need(t, n) THEN CtlOutcomes ELSE {"ack"}
R2Set(t, n, r0, rows, r1) ==
  IF t.fast /\ Passes(r0) /\ Len(rows) = Need(t, n) /\ r1 = "ack" THEN SwitchOutcomes
  ELSE {"ack"}

\* the caller has the result of its last call: the next step can begin
Ready == call.op = "none"

\* the controller's calls
DoAcquire ==
  /\ UNCHANGED probe
  /\ Ready
  /\ \E st \in StblArgs, n \in NmsArgs :
       IF Busy \/ st \notin DOMAIN stbl
       THEN acquire(st, n, "ack", <<>>, "ack", "ack")
       ELSE \E r0 \in R0Set(stbl[st]) : \E rows \in RowSet(stbl[st], n, r0) :
            \E r1 \in R1Set(stbl[st], n, r0, rows) :
            \E r2 \in R2Set(stbl[st], n, r0, rows, r1) :
              acquire(st, n, r0, rows, r1, r2)
DoStart ==
  /\ UNCHANGED probe
  /\ Ready
  /\ \E st \in StblArgs, n \in NmsStart :
       IF Busy \/ st \notin DOMAIN stbl
       THEN n = None /\ start(st, n, "ack")
       ELSE \E r0 \in R0Set(stbl[st]) : start(st, n, r0)
DoRead ==
  /\ UNCHANGED probe
  /\ Ready
  /\ \E r1 \in IF thread = 0 THEN {"ack"} ELSE CtlOutcomes :
     \E r2 \in IF r1 = "ack" /\ acq # 0 /\ stbl[sess[acq].stbl].fast THEN SwitchOutcomes
               ELSE {"ack"} :
       read(r1, r2)
DoConfig ==
  /\ UNCHANGED probe
  /\ Ready
  /\ \E c \in ConfigCalls :
     \E r1 \in IF Busy \/ ~c.valid THEN {"ack"} ELSE CtlOutcomes :
     \E r2 \in IF Busy \/ ~c.valid \/ ~Passes(r1) THEN {"ack"} ELSE CtlOutcomes :
       config(c.stbl, c.prof, c.port, r1, r2)
DoAllocbuffer ==
  /\ UNCHANGED probe
  /\ Ready
  /\ \E st \in StblArgs, np \in {None, 1, npress + 2} :
       /\ st \notin DOMAIN stbl => np = None
       /\ allocbuffer(st, np)
DoStop == Ready /\ stop /\ UNCHANGED probe
DoSamplesread == Ready /\ samplesread /\ UNCHANGED probe
DoSamplerate ==
  /\ UNCHANGED probe
  /\ Ready
  /\ \E el \in (IF acquiring THEN ElapsedOf(sess[acq].nsamples) ELSE {0}) : samplerate(el)
DoAcquire0 ==
  /\ UNCHANGED probe
  /\ Ready
  /\ \E st \in StblArgs, n \in NmsLegacy : acquire0(st, n)

\* one receive of the acquire0() under way ends
DoAcquire0Recv ==
  /\ UNCHANGED probe
  /\ \E o \in CtlOutcomes \cup LegacyRows : acquire0_recv(o)

DoSimpleacquire ==
  /\ UNCHANGED probe
  /\ Ready
  /\ \E st \in StblArgs, n \in NmsLegacy : simpleacquire(st, n)

\* one response() of the simpleacquire() under way ends
DoSimpleacquireRecv ==
  /\ UNCHANGED probe
  /\ \E o \in SwitchOutcomes \cup LegacyPackets : simpleacquire_recv(o)

\* the background thread: DTCThread.run() runs free of the controller's calls,
\* before start() has returned and while any later call is under way or
\* unreturned
DoThreadBegin ==
  /\ UNCHANGED probe
  /\ \E i \in DOMAIN sess : ThreadBegin(i)

DoThreadRecv ==
  /\ UNCHANGED probe
  /\ \E i \in DOMAIN sess, o \in ThreadOutcomes : ThreadRecv(i, o)

\* the caller takes the result of the call
Return ==
  /\ UNCHANGED probe
  /\ ~Ready
  /\ call.res # Run
  /\ call' = NoCall
  /\ UNCHANGED <<stbl, buffer, buflen, acquiring, acq, thread, timeout, sess>>

Next ==
  \/ DoAcquire
  \/ DoStart
  \/ DoRead
  \/ DoConfig
  \/ DoAllocbuffer
  \/ DoStop
  \/ DoSamplesread
  \/ DoSamplerate
  \/ DoAcquire0
  \/ DoAcquire0Recv
  \/ DoSimpleacquire
  \/ DoSimpleacquireRecv
  \/ DoThreadBegin
  \/ DoThreadRecv
  \/ Return

Spec == Init /\ [][Next]_vars

\* ------------------------------------------------ the registry under config()
\* self.stbl is written by config() alone (line 937): the controller driven with
\* config() calls only, on three table ids and with a wider choice of port lists
RegistryCalls ==
  ConfigCalls \cup
  { [stbl |-> 0, prof |-> ProfA, port |-> NoPort, valid |-> FALSE],
    [stbl |-> 1, prof |-> ProfA, port |-> Port(<< <<100>> >>), valid |-> TRUE],
    [stbl |-> 1, prof |-> ProfB, port |-> Port(<< <<201, 301>>, <<503>> >>), valid |-> TRUE],
    [stbl |-> 1, prof |-> ProfA, port |-> NoPort, valid |-> TRUE],
    [stbl |-> 2, prof |-> ProfA, port |-> Port(<< <<302>>, <<101>> >>), valid |-> TRUE] }

DoConfigRegistry ==
  /\ UNCHANGED probe
  /\ Ready
  /\ \E c \in RegistryCalls :
     \E r1 \in IF ~c.valid THEN {"ack"} ELSE CtlOutcomes :
     \E r2 \in IF ~c.valid \/ ~Passes(r1) THEN {"ack"} ELSE CtlOutcomes :
       config(c.stbl, c.prof, c.port, r1, r2)

NextConfig == DoConfigRegistry \/ Return

SpecConfig == Init /\ [][NextConfig]_vars

\* --------------------------------------------- the timeout of an acquisition
\* acquire() and start() compute the receive timeout from nfr and msd of the
\* table (lines 985-987, 1028-1030): the controller driven with config() calls
\* that set table 5 to every pair of these frame counts and delays, where
\* 2 * max(4*nfr, msd) is below the floor (1, 50), decided by msd (1, 600 and
\* 64, 600) and decided by nfr (64, 50; 200, 50; 200, 600), and with the calls
\* of an acquisition
TimingNfr == {1, 64, 200}
TimingMsd == {50, 600}
TimingCalls ==
  { [stbl |-> 5, prof |-> [nfr |-> f, nms |-> 1, msd |-> m, trm |-> 0, fast |-> FALSE],
     port |-> NoPort, valid |-> TRUE] : f \in TimingNfr, m \in TimingMsd }

DoConfigTiming ==
  /\ UNCHANGED probe
  /\ Ready
  /\ \E c \in TimingCalls :
     \E r1 \in IF Busy THEN {"ack"} ELSE CtlOutcomes :
     \E r2 \in IF Busy \/ ~Passes(r1) THEN {"ack"} ELSE CtlOutcomes :
       config(c.stbl, c.prof, c.port, r1, r2)

NextTiming ==
  \/ DoConfigTiming
  \/ DoAcquire
  \/ DoStart
  \/ DoRead
  \/ DoThreadBegin
  \/ DoThreadRecv
  \/ Return

SpecTiming == Init /\ [][NextTiming]_vars

\* ------------------------------------------------- response() on the bytes
\* The connection as response() sees it: segs are the sizes of the segments that
\* have arrived, in order, after which the connection is silent.  A packet on
\* the wire is [c, t, m] (the header: code, type, length) with a, n the two
\* half-words that follow (msnum and nvals, or nrows and ncols) and v the value
\* of a 4-byte body.
MaxVals == 2

\* socket.recv(k), k > 0: what is at hand of the first segment, k bytes at most;
\* socket.timeout when nothing arrives
recv(segs, k) ==
  IF segs = <<>> THEN [timeout |-> TRUE, got |-> 0, rest |-> segs]
  ELSE LET g == Min2(k, Head(segs)) IN
       [timeout |-> FALSE, got |-> g,
        rest |-> IF g = Head(segs) THEN Tail(segs) ELSE <<Head(segs) - g>> \o Tail(segs)]

\* the result of response(): the packet (type, code, length, the number of
\* values its data holds, None for a packet without data) or the exception, the
\* values it carries, and the bytes taken from the connection
Packet(pkt, ndata, used) ==
  [ok |-> TRUE, exc |-> "", type |-> pkt.t, code |-> pkt.c, len |-> pkt.m,
   ndata |-> ndata, carries |-> <<>>, used |-> used]
Fault(exc, carries, used) ==
  [ok |-> FALSE, exc |-> exc, type |-> None, code |-> None, len |-> None,
   ndata |-> None, carries |-> carries, used |-> used]

\* struct.unpack(fmt, self.s.recv(k)): k bytes or struct.error
unpack(segs, k, used) ==
  LET r == recv(segs, k) IN
  IF r.timeout THEN [ok |-> FALSE, fault |-> Fault("timeout", <<>>, used), rest |-> r.rest]
  ELSE IF r.got < k THEN
    [ok |-> FALSE, fault |-> Fault("struct.error", <<>>, used + r.got), rest |-> r.rest]
  ELSE [ok |-> TRUE, fault |-> Fault("", <<>>, used + k), rest |-> r.rest]

\* read_packet04, read_packet08, read_packet09, read_packet128: a 4-byte body
read_packet04(segs, pkt, used) ==
  LET b == unpack(segs, 4, used) IN
  IF ~b.ok THEN b.fault ELSE Packet(pkt, None, used + 4)

\* np.frombuffer(self.s.recv(nvals * width), dtype): the values of the bytes that
\* came, ValueError when they are no whole number of values
frombuffer(segs, nvals, width, used) ==
  LET r == recv(segs, nvals * width) IN
  IF r.timeout THEN [ok |-> FALSE, fault |-> Fault("timeout", <<>>, used), n |-> 0, used |-> used]
  ELSE IF r.got % width # 0 THEN
    [ok |-> FALSE, fault |-> Fault("ValueError", <<>>, used + r.got), n |-> 0,
     used |-> used + r.got]
  ELSE [ok |-> TRUE, fault |-> Fault("", <<>>, used + r.got), n |-> r.got \div width,
        used |-> used + r.got]

\* read_packet16, read_packet17, read_packet19: msnum and nvals, 16 bytes of
\* details, then nvals values of width bytes (type 17 is kept as 3*nvals bytes)
read_packet16(segs, pkt, width, used) ==
  LET a == unpack(segs, 4, used) IN
  IF ~a.ok THEN a.fault
  ELSE LET b == unpack(a.rest, 16, used + 4) IN
       IF ~b.ok THEN b.fault
       ELSE LET d == frombuffer(b.rest, IF width = 3 THEN 3 * pkt.n ELSE pkt.n,
                                IF width = 3 THEN 1 ELSE width, used + 20)
            IN  IF ~d.ok THEN d.fault ELSE Packet(pkt, d.n, d.used)

\* read_packet33: nrows and ncols, then nrows*ncols 4-byte values, reshaped
read_packet33(segs, pkt, used) ==
  LET a == unpack(segs, 4, used) IN
  IF ~a.ok THEN a.fault
  ELSE LET d == frombuffer(a.rest, pkt.a * pkt.n, 4, used + 4) IN
       IF ~d.ok THEN d.fault
       ELSE IF d.n # pkt.a * pkt.n THEN Fault("ValueError", <<>>, d.used)
       ELSE Packet(pkt, d.n, d.used)

\* if err: of response()
ErrorRaises_always(err) == TRUE
ErrorRaises(err) == err

\* DTCInitiumCore.response(err) reading the packet pkt from the segments segs
response_bytes(segs, pkt, err) ==
  LET h == unpack(segs, 4, 0) IN
  IF ~h.ok THEN h.fault
  ELSE IF pkt.t \in {4, 8, 9} THEN read_packet04(h.rest, pkt, 4)
  ELSE IF pkt.t = 16 THEN read_packet16(h.rest, pkt, 2, 4)
  ELSE IF pkt.t = 17 THEN read_packet16(h.rest, pkt, 3, 4)
  ELSE IF pkt.t = 19 THEN read_packet16(h.rest, pkt, 4, 4)
  ELSE IF pkt.t = 33 THEN read_packet33(h.rest, pkt, 4)
  ELSE IF pkt.t = 128 THEN
    LET e == read_packet04(h.rest, pkt, 4) IN
    IF e.ok /\ ErrorRaises(err) THEN Fault("RuntimeError", <<pkt.c, pkt.m, pkt.v>>, e.used)
    ELSE e
  ELSE Fault("RuntimeError", <<pkt.t>>, 4)

\* the bytes of a packet on the wire, as far as response() knows them: of a
\* packet of unknown type, the header
PacketSize(pkt) ==
  IF pkt.t \in {4, 8, 9, 128} THEN 8
  ELSE IF pkt.t = 16 THEN 24 + 2 * pkt.n
  ELSE IF pkt.t = 17 THEN 24 + 3 * pkt.n
  ELSE IF pkt.t = 19 THEN 24 + 4 * pkt.n
  ELSE IF pkt.t = 33 THEN 8 + 4 * pkt.a * pkt.n
  ELSE 4

\* the packets the device sends: every known type and an unknown one
WirePackets ==
  { [c |-> c, t |-> ty, m |-> 8, a |-> 1, n |-> 1, v |-> v] :
      c \in {1, 2}, ty \in {4, 8, 9, 128, 5}, v \in {0, 7} }
  \cup { [c |-> 1, t |-> ty, m |-> 24, a |-> 1, n |-> n, v |-> 0] :
           ty \in {16, 17, 19}, n \in 1..MaxVals }
  \cup { [c |-> 1, t |-> 33, m |-> 8, a |-> a, n |-> n, v |-> 0] :
           a \in 1..MaxVals, n \in 1..MaxVals }

\* how the bytes of a packet of size bytes arrive: in one segment, in one segment
\* together with the header of the next packet, in two segments cut anywhere, or
\* only in part
Deliveries(size) ==
  { <<>>, <<size>>, <<size + 4>> }
  \cup { <<k, size - k>> : k \in 1..(size - 1) }
  \cup { <<k>> : k \in 1..(size - 1) }

\* response(err) is to be applied to a packet and its delivery
RespProbes ==
  UNION { { [fn |-> "response", pkt |-> pkt, segs |-> segs, err |-> err, done |-> FALSE,
             out |-> Fault("", <<>>, 0)] :
              segs \in Deliveries(PacketSize(pkt)), err \in BOOLEAN } :
          pkt \in WirePackets }

InitResp ==
  /\ Controller0
  /\ probe \in RespProbes

DoResponse ==
  /\ probe.fn = "response"
  /\ ~probe.done
  /\ probe' = [probe EXCEPT !.done = TRUE,
                            !.out = response_bytes(probe.segs, probe.pkt, probe.err)]
  /\ UNCHANGED <<stbl, buffer, buflen, acquiring, acq, thread, timeout, sess, call>>

NextResp == DoResponse

SpecResp == InitResp /\ [][NextResp]_vars

\* ------------------------------------------------ the port helpers on lists
\* Port names, as the numbers they spell: a two-character name, port 0, the ports
\* of scanner 1 and the one past them, ports of scanners 2, 3 and 5, and a port
\* of scanner 4, which is not configured.
PortCodes == {99, 100, 101, 102, 103, 201, 301, 302, 401, 503}

\* "XYZ" and "XYZ-XYZ"
PortRanges == { <<c>> : c \in PortCodes } \cup { <<c, d>> : c \in PortCodes, d \in PortCodes }

\* the example of the Scanners docstring: "101-102", "201-201", "301-302"
DocExample == << <<101, 102>>, <<201, 201>>, <<301, 302>> >>

\* the arguments of list_ports and count_ports: one range, two, or the example
PortLists ==
  { <<r>> : r \in PortRanges } \cup { <<r, q>> : r \in PortRanges, q \in PortRanges }
  \cup { DocExample }

InitPorts ==
  /\ Controller0
  /\ probe \in { [fn |-> "ports", plst |-> plst, listed |-> FALSE, counted |-> FALSE,
                   lst |-> Ok(<<>>), cnt |-> Ok(0)] : plst \in PortLists }

DoListPorts ==
  /\ probe.fn = "ports"
  /\ ~probe.listed
  /\ probe' = [probe EXCEPT !.listed = TRUE, !.lst = list_ports(probe.plst)]
  /\ UNCHANGED <<stbl, buffer, buflen, acquiring, acq, thread, timeout, sess, call>>

DoCountPorts ==
  /\ probe.fn = "ports"
  /\ ~probe.counted
  /\ probe' = [probe EXCEPT !.counted = TRUE, !.cnt = count_ports(probe.plst)]
  /\ UNCHANGED <<stbl, buffer, buflen, acquiring, acq, thread, timeout, sess, call>>

NextPorts == DoListPorts \/ DoCountPorts

SpecPorts == InitPorts /\ [][NextPorts]_vars

\* ------------------------------------------------ the Scanners constructor
\* An element of the argument scn: an int, a string "a", "a-b", ... or a tuple
\* (int or string, npp, lrn).  A string is given by the integers between its
\* dashes (lims); an int n by isint and lims = <<n>>.
ScanArg(tuple, isint, lims, npp, lrn) ==
  [tuple |-> tuple, isint |-> isint, lims |-> lims, npp |-> npp, lrn |-> lrn]

\* [i for i in range(lo, hi+1)]
IdRun(lo, hi) == IF hi < lo THEN <<>> ELSE [ k \in 1..(hi - lo + 1) |-> lo + k - 1 ]

\* Scanners.range_list(s) with parse_range(s) for a string
range_list(isint, lims) ==
  IF isint THEN Ok(<<lims[1]>>)
  ELSE IF Len(lims) > 2 THEN Exc("ValueError")
  ELSE IF Len(lims) = 2 THEN Ok(IdRun(lims[1], lims[2]))
  ELSE Ok(<<lims[1]>>)

\* Scanners.parse_scanner(s): the group ([ids], npp, lrn)
parse_scanner(s, npp, lrn) ==
  LET r == range_list(s.isint, s.lims) IN
  IF ~r.ok THEN r
  ELSE IF s.tuple THEN Ok([ids |-> r.v, npp |-> s.npp, lrn |-> s.lrn])
  ELSE Ok([ids |-> r.v, npp |-> npp, lrn |-> lrn])

\* self.scanners = [self.parse_scanner(s) for s in scn1]
RECURSIVE parse_scanners(_, _, _)
parse_scanners(scn1, npp, lrn) ==
  IF scn1 = <<>> THEN Ok(<<>>)
  ELSE LET g == parse_scanner(Head(scn1), npp, lrn) IN
       IF ~g.ok THEN g
       ELSE LET r == parse_scanners(Tail(scn1), npp, lrn) IN
            IF ~r.ok THEN r ELSE Ok(<<g.v>> \o r.v)

\* the loop of __init__ that fills self.nports: a later group overwrites
nports_of(groups) ==
  [ s \in UNION { SeqToSet(groups[g].ids) : g \in 1..Len(groups) } |->
      LET gs == { g \in 1..Len(groups) : s \in SeqToSet(groups[g].ids) }
          last == CHOOSE g \in gs : \A h \in gs : h <= g
      IN  groups[last].npp ]

\* Scanners.__init__(scn, npp, lrn); scn1 is scn, in a list if it is not one
Scanners(scn1, npp, lrn) ==
  LET gs == parse_scanners(scn1, npp, lrn) IN
  IF ~gs.ok THEN [ok |-> FALSE, exc |-> gs.exc, scanners |-> <<>>, nports |-> <<>>]
  ELSE [ok |-> TRUE, exc |-> "", scanners |-> gs.v, nports |-> nports_of(gs.v)]

\* A Python string built or read by these methods is the sequence of its
\* characters.  "%d" % n for n >= 0: the decimal digits of n
Digits == <<"0", "1", "2", "3", "4", "5", "6", "7", "8", "9">>
RECURSIVE Dec(_)
Dec(n) == IF n < 10 THEN <<Digits[n + 1]>> ELSE Dec(n \div 10) \o <<Digits[(n % 10) + 1]>>

\* s[-1] of group_str
LastId(s) == s[Len(s)]

\* Scanners.group_str(snl): the text "(a-b, n, l)" or "(a, n, l)"; "%d" % s[0]
\* raises IndexError for an empty group
group_str(snl) ==
  IF snl.ids = <<>> THEN Exc("IndexError")
  ELSE
    LET ss == IF Len(snl.ids) > 1
              THEN Dec(snl.ids[1]) \o <<"-">> \o Dec(LastId(snl.ids))
              ELSE Dec(snl.ids[1])
    IN  Ok(<<"(">> \o ss \o <<",", " ">> \o Dec(snl.npp) \o <<",", " ">>
           \o Dec(snl.lrn) \o <<")">>)

\* Scanners.sd1args(): " ".join of the group strings of self.scanners
RECURSIVE sd1args(_)
sd1args(groups) ==
  IF groups = <<>> THEN Ok(<<>>)
  ELSE LET g == group_str(Head(groups)) IN
       IF ~g.ok THEN g
       ELSE IF Len(groups) = 1 THEN g
       ELSE LET r == sd1args(Tail(groups)) IN
            IF ~r.ok THEN r ELSE Ok(g.v \o <<" ">> \o r.v)

\* s.split('-'): the pieces of s between its dashes
RECURSIVE split_dash(_)
split_dash(s) ==
  IF \A i \in 1..Len(s) : s[i] # "-" THEN <<s>>
  ELSE LET i == CHOOSE k \in 1..Len(s) : s[k] = "-" /\ \A j \in 1..(k - 1) : s[j] # "-"
       IN  <<SubSeq(s, 1, i - 1)>> \o split_dash(SubSeq(s, i + 1, Len(s)))

\* x.strip() of int(x): x without the blanks at its ends
RECURSIVE strip(_)
strip(x) ==
  IF x = <<>> THEN x
  ELSE IF Head(x) = " " THEN strip(Tail(x))
  ELSE IF x[Len(x)] = " " THEN strip(SubSeq(x, 1, Len(x) - 1))
  ELSE x

\* the value of a string of decimal digits
RECURSIVE DecValue(_)
DecValue(x) ==
  IF x = <<>> THEN 0
  ELSE 10 * DecValue(SubSeq(x, 1, Len(x) - 1))
       + (CHOOSE d \in 0..9 : Digits[d + 1] = x[Len(x)])

\* int(x) for a piece x of a string these methods built (no sign, no
\* underscore): its value, or ValueError unless it is digits between blanks
int(x) ==
  LET y == strip(x) IN
  IF y # <<>> /\ \A i \in 1..Len(y) : \E d \in 1..Len(Digits) : Digits[d] = y[i]
  THEN Ok(DecValue(y)) ELSE Exc("ValueError")

\* parse_range(s), its first line: [int(x) for x in s.split('-')]
parse_ints(s) ==
  LET ps == split_dash(s) IN
  IF \E i \in 1..Len(ps) : ~int(ps[i]).ok THEN Exc("ValueError")
  ELSE Ok([ i \in 1..Len(ps) |-> int(ps[i]).v ])

\* Scanners(s) for a string s of characters: scn1 = [s], parse_scanner(s),
\* range_list(s), parse_range(s)
ScannersOfStr(s, npp, lrn) ==
  LET p == parse_ints(s) IN
  IF ~p.ok THEN [ok |-> FALSE, exc |-> p.exc, scanners |-> <<>>, nports |-> <<>>]
  ELSE Scanners(<<ScanArg(FALSE, FALSE, p.v, None, None)>>, npp, lrn)

\* the defaults of Scanners.__init__(self, scn, npp=64, lrn=1)
DefaultNpp == 64
DefaultLrn == 1

\* scanner numbers an argument may name: below, inside and above 1..8
ScanIds == {0, 1, 2, 3, 8, 9}

\* the elements of scn: ints, strings "a", "a-b" and "1-2-3", and tuples of these
\* with 2 or 3 ports per scanner
ScanPlain ==
  { ScanArg(FALSE, TRUE, <<a>>, None, None) : a \in ScanIds }
  \cup { ScanArg(FALSE, FALSE, <<a>>, None, None) : a \in ScanIds }
  \cup { ScanArg(FALSE, FALSE, <<a, b>>, None, None) : a \in ScanIds, b \in ScanIds }
  \cup { ScanArg(FALSE, FALSE, <<1, 2, 3>>, None, None) }
ScanArgs ==
  ScanPlain
  \cup { ScanArg(TRUE, s.isint, s.lims, n, 1) : s \in ScanPlain, n \in {2, 3} }

\* scn: one element or a list of two
ScanLists == { <<s>> : s \in ScanArgs } \cup { <<s, u>> : s \in ScanArgs, u \in ScanArgs }

NotBuilt == [ok |-> FALSE, exc |-> "", scanners |-> <<>>, nports |-> <<>>]

InitScan ==
  /\ Controller0
  /\ probe \in { [fn |-> "scanners", scn |-> scn, built |-> FALSE, rendered |-> FALSE,
                   obj |-> NotBuilt, args |-> Ok(<<>>), obj2 |-> NotBuilt] :
                    scn \in ScanLists }

\* s = Scanners(scn)
DoScanners ==
  /\ probe.fn = "scanners"
  /\ ~probe.built
  /\ probe' = [probe EXCEPT !.built = TRUE,
                            !.obj = Scanners(probe.scn, DefaultNpp, DefaultLrn)]
  /\ UNCHANGED <<stbl, buffer, buflen, acquiring, acq, thread, timeout, sess, call>>

\* a = s.sd1args(), and the rendered string read again by the parser of scanner
\* specifications there is, the constructor: Scanners(a)
DoSd1args ==
  /\ probe.fn = "scanners"
  /\ probe.built /\ probe.obj.ok
  /\ ~probe.rendered
  /\ LET a == sd1args(probe.obj.scanners) IN
     probe' = [probe EXCEPT !.rendered = TRUE,
                            !.args = a,
                            !.obj2 = IF a.ok THEN ScannersOfStr(a.v, DefaultNpp, DefaultLrn)
                                     ELSE NotBuilt]
  /\ UNCHANGED <<stbl, buffer, buflen, acquiring, acq, thread, timeout, sess, call>>

NextScan == DoScanners \/ DoSd1args

SpecScan == InitScan /\ [][NextScan]_vars

\* ------------------------------------------------------------------- claims

\* the sessions there are: the DTCAcquire objects in existence (self.acq, the
\* session self.thread was made for) and the one the last call worked on
Sessions == { sess[i] : i \in { j \in DOMAIN sess : sess[j] # Gone } }
             \cup (IF call.s # Gone THEN {call.s} ELSE {})

\* a session started by start() whose read() has not completed
Active == acq # 0 /\ thread = acq

\* the sessions of ss that are live on the connection when self.acq is a: the
\* one the controller holds and those whose receive loop has not ended (the
\* session of an ended thread stays in existence until the next start())
Live(ss, a) == { i \in DOMAIN ss : i = a \/ ss[i].pc \in {"init", "recv"} }

\* C1: between a successful start() and the completion of the matching read(),
\* every acquire(), start() or config() raises the state-conflict error, sends
\* nothing and leaves the registry, the session objects, self.acq and the socket
\* timeout as they were; and there is never more than one session live on the
\* connection.  (A call is made when the caller has taken the last result.)
C1_RejectedWhileActive ==
  [][ /\ (Active /\ Ready /\ call'.op \in {"acquire", "start", "config"}) =>
           /\ call'.res = "RuntimeError_busy"
           /\ call'.sent = <<>>
           /\ call'.nrecv = 0
           /\ stbl' = stbl
           /\ sess' = sess
           /\ acq' = acq
           /\ timeout' = timeout
      /\ Cardinality(Live(sess', acq')) <= 1 ]_vars

C1_Witness ==
  /\ Active
  /\ sess[acq].pc = "recv"
  /\ call.op \in {"acquire", "start", "config"}
  /\ call.res = "RuntimeError_busy"

\* the bytes a step of a call took from the socket: the whole count of a call
\* made in the step, the increase of a call that was under way
StepRecv == IF call.res = Run THEN call'.nrecv - call.nrecv ELSE call'.nrecv

\* a background thread is in the receive loop of DTCAcquire.acquire()
Receiving == \E i \in DOMAIN sess : sess[i].threaded /\ sess[i].pc = "recv"

\* C2: while the background receive loop is alive no controller operation
\* (acquire, acquire0, simpleacquire, stop, config, read before the thread has
\* ended) receives from the socket or changes its timeout: no step of such an
\* operation taken while the loop is alive does.
C2_NoSecondReceiver ==
  [][ (Receiving /\ call' # call /\ call'.op \in {"acquire", "acquire0", "simpleacquire",
                                                    "stop", "config", "read"}) =>
        (StepRecv = 0 /\ timeout' = timeout) ]_vars

\* C3: acquire() and read() return the matrix only when the receive loop ran to
\* its end with all nms rows counted; a session whose loop ended on a fault
\* makes the call raise.
C3_MatrixOnlyWhenComplete ==
  (call.op \in {"acquire", "read"} /\ call.s # Gone /\ call.res = "ok") =>
     (call.s.pc = "done" /\ call.s.nsamples >= call.s.nms)

\* C4: the completion response() of a session that asks for at least one row is
\* read only when its nsamples equals its nms, on the calling thread or after
\* the join.
C4_CompletionAfterAllRows ==
  \A s \in Sessions : (s.nms >= 1 /\ s.ackat # None) => s.ackat = s.nms

\* C5: every row a session has counted in nsamples arrived with all of its
\* nchans*4+24 bytes.
C5_CountedRowsAreWhole ==
  \A s \in Sessions : s.nsamples = s.nfull

\* C6: when an acquire() or read() that worked on a session has finished, by
\* returning or by raising, self.acq is None and isacquiring() is False.
C6_NoSessionAfterCall ==
  (call.op \in {"acquire", "read"} /\ call.s # Gone) => (acq = 0 /\ ~acquiring)

\* C7: between start() and the end of read() the session's buf is the
\* controller's buffer.
C7_SessionSharesBuffer ==
  Active => sess[acq].buf = buffer

\* C8: a session that has received a row has a buffer of at least nms rows, and
\* never counts more rows than its buffer has.
C8_BufferHoldsRequest ==
  \A s \in Sessions : s.nsamples >= 1 => (s.nms <= s.bufrows /\ s.nsamples <= s.bufrows)

\* C9: between start() and the end of read(), samplesread() returns an integer
\* in 0 .. nms and the session's nsamples never decreases.
C9_SamplesreadInRange ==
  [][ /\ (call'.op = "samplesread" /\ call'.res = "ok") =>
           (call'.val >= 0 /\ call'.val <= call'.s.nms)
      /\ (Active /\ Active' /\ acq' = acq) =>
           sess'[acq].nsamples >= sess[acq].nsamples ]_vars

\* C10: stop() sends AD0 and then consumes exactly one response packet.
C10_StopReadsOneResponse ==
  call.op = "stop" => (call.sent = <<"AD0">> /\ call.nrecv = 1 /\ call.res = "ok")

\* C11: whenever no acquisition is under way (the controller holds no session,
\* is not acquiring, no receive thread runs and no call is in progress) the
\* socket's timeout is the controller's steady-state timeout.
C11_TimeoutRestored ==
  (acq = 0 /\ ~acquiring /\ ~ThreadAlive /\ call.res # Run) => timeout = SteadyTimeout

\* a port code names a configured scanner and one of its ports, 1 .. nports
ValidPort(c) ==
  /\ c \div 100 \in DOMAIN nports
  /\ c % 100 >= 1
  /\ c % 100 <= nports[c \div 100]

\* the port codes a range stands for: the valid codes from its first endpoint to
\* its last (a single port is its own first and last endpoint)
RangeCodes(r) == { c \in r[1]..r[Len(r)] : ValidPort(c) }

\* a range is well formed: its endpoints are valid ports, in ascending order,
\* and every scanner from the first to the last is configured
WellFormed(r) ==
  /\ \A i \in 1..Len(r) : ValidPort(r[i])
  /\ r[1] <= r[Len(r)]
  /\ \A s \in (r[1] \div 100)..(r[Len(r)] \div 100) : s \in DOMAIN nports

\* two of the ranges of a list share a port code
SharesPort(plst) ==
  \E i, j \in 1..Len(plst) : i < j /\ RangeCodes(plst[i]) \cap RangeCodes(plst[j]) # {}

\* a config() call that must end in a validation fault
BadConfig(c) ==
  \/ c.stbl < MinStbl
  \/ c.stbl > MaxStbl
  \/ c.port.given /\ \E i \in 1..Len(c.port.lst) : ~WellFormed(c.port.lst[i])
  \/ c.port.given /\ SharesPort(c.port.lst)

\* the step is a call that raised, sent nothing and changed nothing
Rejected ==
  /\ call'.res # "ok"
  /\ call'.sent = <<>>
  /\ call'.nrecv = 0
  /\ UNCHANGED <<stbl, sess, acq, thread, acquiring, timeout>>

\* C12: config() with a table id outside 1..5 or a port list that names an
\* unconfigured scanner, an out-of-range port or a port twice, and acquire(),
\* start(), acquire0() and simpleacquire() on a table id that is not configured,
\* raise without sending a command and without changing the registry, the
\* session or the socket timeout.
C12_ValidationBeforeWire ==
  [][ /\ (Ready /\ call'.op = "config") =>
           \A c \in RegistryCalls : \A r1, r2 \in CtlOutcomes :
             (BadConfig(c) /\ config(c.stbl, c.prof, c.port, r1, r2)) => Rejected
      /\ (Ready /\ call'.op \in {"acquire", "start", "acquire0", "simpleacquire"}) =>
           \A st \in StblArgs \ DOMAIN stbl :
             /\ acquire(st, None, "ack", <<>>, "ack", "ack") => Rejected
             /\ start(st, None, "ack") => Rejected
             /\ acquire0(st, None) => Rejected
             /\ simpleacquire(st, None) => Rejected ]_vars

\* C13: a config() that gets to the wire sends SD2 and reads its response, then
\* sends SD3 and reads its response; a response to either that is not an Ack
\* makes config() raise, and SD3 is not sent after a non-Ack response to SD2.
C13_ConfigAcks ==
  (call.op = "config" /\ call.sent # <<>>) =>
     /\ call.sent \in { <<"SD2">>, <<"SD2", "SD3">> }
     /\ Len(call.resp) = Len(call.sent)
     /\ call.resp[1] # "ack" => (call.res # "ok" /\ call.sent = <<"SD2">>)
     /\ (Len(call.resp) = 2 /\ call.resp[2] # "ack") => call.res # "ok"

\* C14: a call that consumed an Error packet, through response() or where its
\* receive loop expected row 0, raises: it does not end with a normal result.
C14_ErrorSurfaced ==
  /\ (\E i \in 1..Len(call.resp) : call.resp[i] = "err") => call.res # "ok"
  /\ (call.rows # <<>> /\ call.rows[1] = ErrRow) => call.res # "ok"

\* C15: a packet that response() returns was read whole: the bytes taken from
\* the connection are exactly the packet's (8 for types 4, 8, 9 and 128,
\* 8 + 4*rows*cols for type 33, 24 + 2, 3 or 4 bytes per value for types 16, 17,
\* 19), and its data holds every value the packet announces.
WholeData(pkt) ==
  IF pkt.t \in {16, 19} THEN pkt.n
  ELSE IF pkt.t = 17 THEN 3 * pkt.n
  ELSE IF pkt.t = 33 THEN pkt.a * pkt.n
  ELSE None
C15_ExactBytes ==
  (probe.fn = "response" /\ probe.done /\ probe.out.ok) =>
     /\ probe.out.used = PacketSize(probe.pkt)
     /\ probe.out.ndata = WholeData(probe.pkt)

\* C16: response(err) on a packet that has arrived dispatches on the type t of
\* its header: for t in {4, 8, 9, 16, 17, 19, 33} it returns the packet of that
\* type with the header's code, type and length; for t = 128 it reads the 4-byte
\* body and then raises, carrying the code, the length and the error code, when
\* err is true, and returns the Error packet when err is false; for any other t
\* it raises after reading the header only.
Arrived(p) == p.segs # <<>> /\ Head(p.segs) >= PacketSize(p.pkt)
C16_Dispatch ==
  (probe.fn = "response" /\ probe.done /\ Arrived(probe)) =>
     LET o == probe.out
         p == probe.pkt
     IN  /\ p.t \in {4, 8, 9, 16, 17, 19, 33} =>
              o.ok /\ o.type = p.t /\ o.code = p.c /\ o.len = p.m
         /\ (p.t = 128 /\ probe.err) =>
              /\ ~o.ok /\ o.exc = "RuntimeError"
              /\ o.carries = <<p.c, p.m, p.v>>
              /\ o.used = 8
         /\ (p.t = 128 /\ ~probe.err) =>
              o.ok /\ o.type = 128 /\ o.code = p.c /\ o.len = p.m /\ o.used = 8
         /\ p.t \notin {4, 8, 9, 16, 17, 19, 33, 128} =>
              ~o.ok /\ o.exc = "RuntimeError" /\ o.used = 4
C16_Witness ==
  /\ probe.fn = "response" /\ probe.done /\ Arrived(probe)
  /\ probe.pkt.t = 128 /\ probe.err
  /\ probe.out.exc = "RuntimeError" /\ probe.out.carries = <<2, 8, 7>>

\* C17: for well-formed ranges that share no port, list_ports returns, range
\* after range in the order given, the ascending sequence of all port codes from
\* the first endpoint to the last: the ports XX..npp of the first scanner, every
\* port of the scanners in between, the ports 1..YY of the last scanner.
RECURSIVE Ascending(_)
Ascending(S) ==
  IF S = {} THEN <<>>
  ELSE LET m == CHOOSE x \in S : \A y \in S : x <= y IN <<m>> \o Ascending(S \ {m})
RECURSIVE Expansion(_)
Expansion(plst) ==
  IF plst = <<>> THEN <<>>
  ELSE Ascending(RangeCodes(Head(plst))) \o Expansion(Tail(plst))
C17_Expansion ==
  (/\ probe.fn = "ports" /\ probe.listed
   /\ \A i \in 1..Len(probe.plst) : WellFormed(probe.plst[i])
   /\ ~SharesPort(probe.plst)) =>
     probe.lst.ok /\ probe.lst.v = Expansion(probe.plst)
C17_Witness ==
  /\ probe.fn = "ports" /\ probe.listed
  /\ probe.plst = << <<102, 301>>, <<503>> >>
  /\ probe.lst = Ok(<<102, 201, 202, 301, 503>>)

\* C18: when list_ports returns, every port code of the list, and every single
\* port and range endpoint of the request, names a configured scanner and a port
\* between 1 and that scanner's number of ports.
C18_PortsValid ==
  (probe.fn = "ports" /\ probe.listed /\ probe.lst.ok) =>
     /\ \A i \in 1..Len(probe.lst.v) : ValidPort(probe.lst.v[i])
     /\ \A i \in 1..Len(probe.plst) : \A k \in 1..Len(probe.plst[i]) :
          ValidPort(probe.plst[i][k])

\* C19: list_ports raises when two of the ranges share a port code, and a list
\* it returns holds no port code twice.
NoRepeat(v) == \A i, j \in 1..Len(v) : i < j => v[i] # v[j]
C19_NoDuplicates ==
  (probe.fn = "ports" /\ probe.listed) =>
     /\ probe.lst.ok => NoRepeat(probe.lst.v)
     /\ SharesPort(probe.plst) => ~probe.lst.ok
C19_Witness ==
  /\ probe.fn = "ports" /\ probe.listed
  /\ probe.plst = << <<101, 102>>, <<102>> >>
  /\ probe.lst = Exc("ValueError")

\* C20: count_ports raises exactly when list_ports raises, and otherwise
\* returns the length of the list that list_ports returns.
C20_CountAgrees ==
  (probe.fn = "ports" /\ probe.listed /\ probe.counted) =>
     /\ probe.cnt.ok <=> probe.lst.ok
     /\ probe.lst.ok => probe.cnt.v = Len(probe.lst.v)

\* C21: a Scanners object that was constructed has no scanner id in two of its
\* groups, only scanner ids from 1 to 8, and a map nports defined on exactly the
\* ids of its groups that gives each id the ports per scanner of its group.
GroupIds(g) == SeqToSet(g.ids)
C21_ScannersWellFormed ==
  (probe.fn = "scanners" /\ probe.built /\ probe.obj.ok) =>
     LET gs == probe.obj.scanners IN
     /\ \A g, h \in 1..Len(gs) : g # h => GroupIds(gs[g]) \cap GroupIds(gs[h]) = {}
     /\ \A g \in 1..Len(gs) : GroupIds(gs[g]) \subseteq 1..8
     /\ DOMAIN probe.obj.nports = UNION { GroupIds(gs[g]) : g \in 1..Len(gs) }
     /\ \A g \in 1..Len(gs) : \A s \in GroupIds(gs[g]) : probe.obj.nports[s] = gs[g].npp

\* C22: for a scanner spec in which every group names at least one scanner,
\* sd1args() renders one "(a-b, npp, lrn)" or "(a, npp, lrn)" group per group,
\* in order, and parsing the rendered string again gives a Scanners with the
\* same map nports and the same total number of channels.
RECURSIVE SumOver(_, _)
SumOver(f, S) ==
  IF S = {} THEN 0 ELSE LET x == CHOOSE y \in S : TRUE IN f[x] + SumOver(f, S \ {x})
Channels(obj) == SumOver(obj.nports, DOMAIN obj.nports)
ValidScanners(obj) ==
  obj.ok /\ \A g \in 1..Len(obj.scanners) : obj.scanners[g].ids # <<>>
\* the text of group g as the claim spells it
GroupText(g) ==
  <<"(">> \o Dec(g.ids[1])
  \o (IF Len(g.ids) > 1 THEN <<"-">> \o Dec(g.ids[Len(g.ids)]) ELSE <<>>)
  \o <<",", " ">> \o Dec(g.npp) \o <<",", " ">> \o Dec(g.lrn) \o <<")">>
RECURSIVE GroupTexts(_)
GroupTexts(gs) ==
  IF Len(gs) = 1 THEN GroupText(gs[1])
  ELSE GroupText(gs[1]) \o <<" ">> \o GroupTexts(Tail(gs))
C22_Sd1argsRoundTrip ==
  (probe.fn = "scanners" /\ probe.rendered /\ ValidScanners(probe.obj)) =>
     /\ probe.args.ok
     /\ probe.args.v = GroupTexts(probe.obj.scanners)
     /\ probe.obj2.ok
     /\ probe.obj2.nports = probe.obj.nports
     /\ Channels(probe.obj2) = Channels(probe.obj)
\* the rendering half of C22 alone
C22_Rendered ==
  (probe.fn = "scanners" /\ probe.rendered /\ ValidScanners(probe.obj)) =>
     (probe.args.ok /\ probe.args.v = GroupTexts(probe.obj.scanners))

\* C23: every setup table of the registry is stored under its own table id, a
\* number from 1 to 5, and its channel count is the number of ports its stored
\* port ranges expand to; the default ranges of a table configured without ports
\* expand to every port of every configured scanner exactly once, so that its
\* channel count is the sum of the ports of all configured scanners.
AllPorts == { c \in 100..999 : ValidPort(c) }
C23_TablesConsistent ==
  \A k \in DOMAIN stbl :
    LET t == stbl[k]
        lp == list_ports(t.port)
    IN  /\ k \in MinStbl..MaxStbl
        /\ t.stbl = k
        /\ lp.ok /\ t.nchans = Len(lp.v)
        /\ (\A i \in 1..Len(t.port) : WellFormed(t.port[i])) =>
              t.nchans = Len(Expansion(t.port))
        /\ t.port = ports_default =>
              /\ SeqToSet(lp.v) = AllPorts /\ NoRepeat(lp.v)
              /\ t.nchans = SumOver(nports, DOMAIN nports)
C23_Witness ==
  /\ call.op = "config" /\ call.res = "ok"
  /\ 5 \in DOMAIN stbl /\ stbl[5].port = << <<101, 102>> >> /\ stbl[5].nchans = 2
  /\ 1 \in DOMAIN stbl /\ stbl[1].stbl = 1

\* C24: the rate samplerate() reports during a background acquisition is never
\* negative, and the rate a successful acquire() or read() returns, computed
\* from the rows its session counted, is positive.
C24_RateSign ==
  /\ (call.op = "samplerate" /\ call.res = "ok") =>
        (call.val.den > 0 /\ call.val.num >= 0)
  /\ (call.op \in {"acquire", "read"} /\ call.res = "ok") =>
        \A el \in ElapsedOf(call.s.nsamples) :
          /\ DTCAcquire_samplerate(call.s.nsamples, el).den > 0
          /\ DTCAcquire_samplerate(call.s.nsamples, el).num > 0

\* C25: a config() call that raises because the device answered SD2 or SD3 with
\* an Error packet leaves the registry of setup tables as it was, and a config()
\* call changes the entry of one table id at most and
\* removes none.
ChangedTables ==
  { k \in DOMAIN stbl \cup DOMAIN stbl' :
      k \notin DOMAIN stbl \/ k \notin DOMAIN stbl' \/ stbl[k] # stbl'[k] }
C25_FailedConfigKeepsRegistry ==
  [][ (Ready /\ call'.op = "config") =>
        /\ (call'.res # "ok" /\ \E i \in 1..Len(call'.resp) : call'.resp[i] = "err") =>
              stbl' = stbl
        /\ DOMAIN stbl \subseteq DOMAIN stbl'
        /\ Cardinality(ChangedTables) <= 1 ]_vars

\* C26: an acquire() or start() call that begins a session has applied, before
\* AD2 goes out, the receive timeout max(300, 2 * max(4*nfr, msd)) ms of the
\* table it acquires from, the same for both calls and never below 300 ms: it
\* is the timeout of the connection when start() has ended, which has not sent
\* AD2 itself, and when acquire() has sent AD2 and raised.
FrameTime(t) == IF 4 * t.nfr >= t.msd THEN 4 * t.nfr ELSE t.msd
AdaptiveTimeout(t) == IF 2 * FrameTime(t) >= 300 THEN 2 * FrameTime(t) ELSE 300
C26_AdaptiveTimeout ==
  (call.op \in {"acquire", "start"} /\ call.s # Gone) =>
     /\ call.tmo = AdaptiveTimeout(stbl[call.s.stbl])
     /\ call.tmo >= 300
     /\ call.op = "start" =>
          (timeout = call.tmo /\ \A i \in 1..Len(call.sent) : call.sent[i] # "AD2")
     /\ (call.op = "acquire" /\ call.res # "ok") =>
          (timeout = call.tmo /\ \E i \in 1..Len(call.sent) : call.sent[i] = "AD2")
C26_Witness ==
  /\ call.op = "start" /\ call.res = "ok"
  /\ stbl[call.s.stbl].nfr = 64 /\ stbl[call.s.stbl].msd = 50
  /\ call.tmo = 512 /\ timeout = 512
  /\ \E i \in DOMAIN sess : sess[i].threaded /\ sess[i].pc = "init"

\* C27: an acquisition that succeeds with every row received whole sends, for a
\* table in fast mode, SD5 -1 0 and reads its response (acquire, start), then
\* AD2, the rows and the completion Ack, then SD5 -1 1 and reads its response
\* (acquire, read); for a table not in fast mode it sends no SD5.  The registry
\* does not change while a started session is active, so read() consults the
\* fast flag the session was started with.
Complete(s) == s.pc = "done" /\ s.nfull = s.nsamples /\ s.ackat = s.nsamples
C27_FastBracket ==
  [][ /\ acquiring => stbl' = stbl
      /\ (call'.op = "start" /\ call'.res = "ok") =>
            /\ call'.sent = (IF stbl'[call'.s.stbl].fast THEN <<"SD5 -1 0">> ELSE <<>>)
            /\ Len(call'.resp) = Len(call'.sent)
            /\ call'.s.pc = "init"
      /\ (call'.op = "read" /\ call'.res = "ok" /\ call'.busy /\ Complete(call'.s)) =>
            /\ call'.sent = (IF stbl'[call'.s.stbl].fast THEN <<"SD5 -1 1">> ELSE <<>>)
            /\ Len(call'.resp) = 1 + Len(call'.sent)
            /\ call'.resp[1] = "ack"
            /\ call'.nrecv = Len(call'.resp)
      /\ (call'.op = "acquire" /\ call'.res = "ok" /\ Complete(call'.s)) =>
            /\ call'.sent = (IF stbl'[call'.s.stbl].fast
                             THEN <<"SD5 -1 0", "AD2", "SD5 -1 1">> ELSE <<"AD2">>)
            /\ Len(call'.resp) = Len(call'.sent)
            /\ call'.resp[Len(call'.resp) - (IF stbl'[call'.s.stbl].fast THEN 1 ELSE 0)] = "ack"
            /\ call'.nrecv = Len(call'.resp) + call'.s.nsamples ]_vars
C27_Witness ==
  /\ call.op = "read" /\ call.res = "ok" /\ call.busy /\ Complete(call.s)
  /\ stbl[call.s.stbl].fast
  /\ call.s.nms >= 1 /\ call.s.nsamples = call.s.nms
  /\ call.sent = <<"SD5 -1 1">> /\ call.resp = <<"ack", "ack">>

\* C28: the capacity of the buffer never decreases; allocbuffer(stbl, N) on a
\* configured table leaves it at least N and at least the table's nms, and
\* leaves capacity and buffer as they were when the capacity already sufficed;
\* on a table that is not configured it raises and changes nothing.
C28_BufferGrows ==
  [][ /\ buflen' >= buflen
      /\ (Ready /\ call'.op = "allocbuffer" /\ call'.res = "ok") =>
            LET nms == stbl[call'.arg[1]].nms
                n   == IF call'.arg[2] = None THEN 0 ELSE call'.arg[2]
            IN  /\ call'.arg[1] \in DOMAIN stbl
                /\ buflen' >= nms /\ buflen' >= n
                /\ (buflen >= nms /\ buflen >= n) => (buflen' = buflen /\ buffer' = buffer)
      /\ (Ready /\ call'.op = "allocbuffer" /\ call'.res # "ok") =>
            /\ call'.arg[1] \notin DOMAIN stbl
            /\ UNCHANGED <<stbl, buffer, buflen, acquiring, acq, thread, timeout, sess>> ]_vars

\* C29: read() called while no started session is active is rejected: it raises,
\* reads nothing from the connection, sends nothing and changes nothing.
C29_ReadNeedsSession ==
  [][ (Ready /\ call'.op = "read" /\ ~acquiring) =>
        /\ call'.res # "ok"
        /\ call'.nrecv = 0 /\ call'.sent = <<>>
        /\ UNCHANGED <<stbl, buffer, buflen, acquiring, acq, thread, timeout, sess>> ]_vars

====
